---- MODULE Spec2Model ----
(***************************************************************************)
(* The yini parser (src/src/lib.rs) as a state machine.                    *)
(*                                                                         *)
(* A byte is a one-character string; the input is a sequence of bytes and  *)
(* pos is the 0-based read position of the code, so the byte at pos is     *)
(* input[pos + 1].  The scanners that only loop over bytes are operators   *)
(* on a cursor [pos, line, column]; the recursive-descent functions        *)
(* (parse, parse_struct, parse_array, parse_tuple, parse_value,            *)
(* parse_field_value) are run on an explicit call stack, one action per    *)
(* stretch of code between two calls.                                      *)
(***************************************************************************)
EXTENDS Integers, Sequences, FiniteSets, TLC

VARIABLES input, pos, line, column, errors, stack, ret, phase, root

vars == <<input, pos, line, column, errors, stack, ret, phase, root>>

\* Option::None of peek_byte / next_byte.
None == "None"

len == Len(input)

-----------------------------------------------------------------------------
(* Values (enum Value) and diagnostics (struct ParseError).  Every value   *)
(* is a record of one shape: t the case, s its text (Str content, Variant  *)
(* name, the decimal digits of an Int, the literal of a Num), b the        *)
(* Boolean (or the sign of an Int), items the children (Array and Tuple    *)
(* elements, the entries of a Struct, the payload of a Variant as a        *)
(* sequence of length 0 or 1).                                             *)

Val(t, s, b, items) == [t |-> t, s |-> s, b |-> b, items |-> items]

StrV(s) == Val("Str", s, FALSE, <<>>)

\* An i64 is kept as its sign and its decimal digits without leading zeros:
\* 2^63 does not fit the integers of the model checker.
IntV(neg, digits) == Val("Int", digits, neg, <<>>)

\* An f64 is kept as the literal it was parsed from.
NumV(text) == Val("Num", text, FALSE, <<>>)

BoolV(b) == Val("Bool", <<>>, b, <<>>)

VariantV(name, payload) == Val("Variant", name, FALSE, payload)

StructV(entries) == Val("Struct", <<>>, FALSE, entries)

ArrayV(items) == Val("Array", <<>>, FALSE, items)

TupleV(items) == Val("Tuple", <<>>, FALSE, items)

\* What parse_struct (a Struct) and parse_array (a Vec<Value>) return before
\* parse_value wraps them into a Value.
RawStruct(entries) == Val("RawStruct", <<>>, FALSE, entries)

RawVec(items) == Val("RawVec", <<>>, FALSE, items)

Entry(k, v) == [k |-> k, v |-> v]

Err(c, kind, arg) == [line |-> c.line, column |-> c.column, kind |-> kind, arg |-> arg]

\* The accessors of impl Value.  An Option is a sequence: << >> is None and
\* <<x>> is Some(x).
as_struct(v) == IF v.t = "Struct" THEN <<v.items>> ELSE <<>>

as_str(v) == IF v.t = "Str" THEN <<v.s>> ELSE <<>>

as_num(v) == IF v.t = "Num" THEN <<v.s>> ELSE <<>>

as_int(v) == IF v.t = "Int" THEN <<[neg |-> v.b, digits |-> v.s]>> ELSE <<>>

as_bool(v) == IF v.t = "Bool" THEN <<v.b>> ELSE <<>>

as_array(v) == IF v.t = "Array" THEN <<v.items>> ELSE <<>>

as_variant(v) == IF v.t = "Variant" THEN <<v.s>> ELSE <<>>

as_variant_with_payload(v) ==
    IF v.t = "Variant" THEN <<[name |-> v.s, payload |-> v.items]>> ELSE <<>>

as_tuple(v) == IF v.t = "Tuple" THEN <<v.items>> ELSE <<>>

as_pair(v) ==
    IF v.t = "Tuple"
    THEN IF Len(v.items) >= 2 THEN <<<<v.items[1], v.items[2]>>>> ELSE <<>>
    ELSE <<>>

-----------------------------------------------------------------------------
(* SeqMap (crate seq_map): entries in insertion order, keys unique.        *)

HasKey(map, k) == \E i \in 1..Len(map) : map[i].k = k

Get(map, k) == map[CHOOSE i \in 1..Len(map) : map[i].k = k].v

\* SeqMap::insert returns Err(KeyAlreadyExists) and leaves the map as it is
\* when the key is present; parse and parse_struct drop that result
\* (`let _ = root.insert(key, val);`).
Insert(map, k, v) == IF HasKey(map, k) THEN map ELSE Append(map, Entry(k, v))

-----------------------------------------------------------------------------
(* The cursor.                                                             *)

Cur(p, l, c) == [pos |-> p, line |-> l, column |-> c]

Byte(p) == input[p + 1]

is_eof(c) == c.pos >= len

peek_byte(c) == IF c.pos < len THEN Byte(c.pos) ELSE None

advance_byte(c, b) ==
    IF b = "\n" THEN Cur(c.pos + 1, c.line + 1, 1)
    ELSE Cur(c.pos + 1, c.line, c.column + 1)

\* The cursor after next_byte (the byte it returns is peek_byte before it).
next_byte(c) == IF c.pos < len THEN advance_byte(c, Byte(c.pos)) ELSE c

\* pos += 1; column += 1 of the scanners that step without advance_byte.
Bump(c) == Cur(c.pos + 1, c.line, c.column + 1)

slice_to_str(start, end) == SubSeq(input, start + 1, end)

\* str::trim: the White_Space bytes an input of this model can hold.
RustWhitespace == {" ", "\t", "\n", "\r", "\f"}

RECURSIVE TrimStart(_)
TrimStart(s) ==
    IF s # <<>> /\ Head(s) \in RustWhitespace THEN TrimStart(Tail(s)) ELSE s

RECURSIVE TrimEnd(_)
TrimEnd(s) ==
    IF s # <<>> /\ s[Len(s)] \in RustWhitespace
    THEN TrimEnd(SubSeq(s, 1, Len(s) - 1)) ELSE s

Trim(s) == TrimEnd(TrimStart(s))

-----------------------------------------------------------------------------
(* Skip rules.                                                             *)

RECURSIVE SkipWsRun(_)
SkipWsRun(c) ==
    IF c.pos < len /\ Byte(c.pos) \in {" ", "\t", "\n", "\r"}
    THEN SkipWsRun(advance_byte(c, Byte(c.pos)))
    ELSE c

\* while let Some(b) = self.next_byte() { if b == b'\n' { break; } }
RECURSIVE SkipCommentBody(_)
SkipCommentBody(c) ==
    IF c.pos >= len THEN c
    ELSE IF Byte(c.pos) = "\n" THEN next_byte(c)
    ELSE SkipCommentBody(next_byte(c))

\* skip_ws_and_comments leaving comments where they are.
SkipWsOnly(c) == SkipWsRun(c)

RECURSIVE skip_ws_and_comments(_)
skip_ws_and_comments(c) ==
    LET d == SkipWsRun(c) IN
    IF peek_byte(d) = "#"
    THEN skip_ws_and_comments(SkipCommentBody(advance_byte(d, "#")))
    ELSE d

RECURSIVE skip_horizontal_ws(_)
skip_horizontal_ws(c) ==
    IF c.pos < len /\ Byte(c.pos) \in {" ", "\t"}
    THEN skip_horizontal_ws(Bump(c))
    ELSE c

\* require_newline_or_eof taking a closing brace for a line end as well.
RequireNewlineAllowsBrace(c) ==
    LET d == skip_horizontal_ws(c) IN
    [c |-> d,
     errs |-> IF is_eof(d) \/ peek_byte(d) \in {"\n", "#", "}"}
              THEN <<>>
              ELSE <<Err(d, "ExpectedNewlineAfterKeyValue", <<>>)>>]

\* The cursor after require_newline_or_eof and the diagnostics it records.
require_newline_or_eof(c) ==
    LET d == skip_horizontal_ws(c) IN
    [c |-> d,
     errs |-> IF is_eof(d) \/ peek_byte(d) = "\n" \/ peek_byte(d) = "#"
              THEN <<>>
              ELSE <<Err(d, "ExpectedNewlineAfterKeyValue", <<>>)>>]

RECURSIVE SyncLoop(_)
SyncLoop(c) ==
    IF c.pos >= len THEN c
    ELSE IF Byte(c.pos) = "\n" THEN next_byte(c)
    ELSE SyncLoop(next_byte(c))

synchronize(c) == skip_ws_and_comments(SyncLoop(c))

-----------------------------------------------------------------------------
(* Token scanners.  Each gives the cursor after the token (c), what was    *)
(* scanned (s or v) and the diagnostics it records (errs).                 *)

Delimiters == {" ", "\t", "\n", "\r", "{", "}", "[", "]", ":", "(", ")"}

Digits == {"0", "1", "2", "3", "4", "5", "6", "7", "8", "9"}

RECURSIVE ScanRun(_)
ScanRun(c) ==
    IF c.pos < len /\ Byte(c.pos) \notin Delimiters THEN ScanRun(Bump(c)) ELSE c

RECURSIVE ScanDigits(_)
ScanDigits(c) ==
    IF c.pos < len /\ Byte(c.pos) \in Digits THEN ScanDigits(Bump(c)) ELSE c

Unescape(esc) ==
    CASE esc = "n" -> "\n"
      [] esc = "t" -> "\t"
      [] esc = "r" -> "\r"
      [] OTHER -> esc

\* The loop of parse_string stepping over the byte after a backslash without
\* looking whether there is one.
RECURSIVE StringLoopEscapeUnchecked(_, _)
StringLoopEscapeUnchecked(c, raw) ==
    IF c.pos >= len
    THEN [c |-> c, s |-> raw, errs |-> <<Err(c, "UnterminatedString", <<>>)>>]
    ELSE LET b == Byte(c.pos)
             c1 == advance_byte(c, b)
         IN  IF b = "\"" THEN [c |-> c1, s |-> raw, errs |-> <<>>]
             ELSE IF b = "\\"
             THEN StringLoopEscapeUnchecked(Bump(c1),
                        IF c1.pos < len THEN Append(raw, Unescape(Byte(c1.pos))) ELSE raw)
             ELSE StringLoopEscapeUnchecked(c1, Append(raw, b))

\* The loop of parse_string, after the opening quote.
RECURSIVE StringLoop(_, _)
StringLoop(c, raw) ==
    IF c.pos >= len
    THEN [c |-> c, s |-> raw, errs |-> <<Err(c, "UnterminatedString", <<>>)>>]
    ELSE LET b == Byte(c.pos)
             c1 == advance_byte(c, b)
         IN  IF b = "\"" THEN [c |-> c1, s |-> raw, errs |-> <<>>]
             ELSE IF b = "\\"
             THEN IF c1.pos < len
                  THEN StringLoop(advance_byte(c1, Byte(c1.pos)),
                                  Append(raw, Unescape(Byte(c1.pos))))
                  ELSE StringLoop(c1, raw)
             ELSE StringLoop(c1, Append(raw, b))

\* parse_string recording nothing when the input ends inside the quotes.
ParseStringSilent(c) == [StringLoop(next_byte(c), <<>>) EXCEPT !.errs = <<>>]

parse_string(c) == StringLoop(next_byte(c), <<>>)

parse_identifier_or_string(c) ==
    LET d == skip_ws_and_comments(c) IN
    IF peek_byte(d) = "\"" THEN parse_string(d)
    ELSE LET e == ScanRun(d) IN
         [c |-> e, s |-> slice_to_str(d.pos, e.pos), errs |-> <<>>]

parse_key(c) == parse_identifier_or_string(skip_ws_and_comments(c))

parse_variant_name(c) ==
    LET e == ScanRun(c) IN [c |-> e, s |-> slice_to_str(c.pos, e.pos)]

\* i64::MAX = 9223372036854775807 and the magnitude of i64::MIN.
I64MaxDigits ==
    <<"9","2","2","3","3","7","2","0","3","6","8","5","4","7","7","5","8","0","7">>

I64MinDigits ==
    <<"9","2","2","3","3","7","2","0","3","6","8","5","4","7","7","5","8","0","8">>

DigitVal(d) ==
    CASE d = "0" -> 0 [] d = "1" -> 1 [] d = "2" -> 2 [] d = "3" -> 3
      [] d = "4" -> 4 [] d = "5" -> 5 [] d = "6" -> 6 [] d = "7" -> 7
      [] d = "8" -> 8 [] d = "9" -> 9

RECURSIVE StripZeros(_)
StripZeros(ds) ==
    IF Len(ds) > 1 /\ Head(ds) = "0" THEN StripZeros(Tail(ds)) ELSE ds

\* a <= b for two digit strings of the same length.
RECURSIVE DigitsLeq(_, _)
DigitsLeq(a, b) ==
    IF a = <<>> THEN TRUE
    ELSE IF DigitVal(Head(a)) < DigitVal(Head(b)) THEN TRUE
    ELSE IF DigitVal(Head(a)) > DigitVal(Head(b)) THEN FALSE
    ELSE DigitsLeq(Tail(a), Tail(b))

FitsI64(neg, ds) ==
    LET lim == IF neg THEN I64MinDigits ELSE I64MaxDigits IN
    \/ Len(ds) < Len(lim)
    \/ Len(ds) = Len(lim) /\ DigitsLeq(ds, lim)

\* ParseI64 dropping the sign.
ParseI64Unsigned(s) ==
    LET neg == s # <<>> /\ Head(s) = "-"
        ds == IF neg THEN Tail(s) ELSE s
        mag == StripZeros(ds)
    IN  IF ds = <<>> \/ ~FitsI64(neg, mag)
        THEN [ok |-> FALSE, v |-> IntV(FALSE, <<"0">>)]
        ELSE [ok |-> TRUE, v |-> IntV(FALSE, mag)]

\* s.parse::<i64>() of an optional '-' and a run of digits: Ok with the
\* value, or Err (no digit, or out of range).
ParseI64(s) ==
    LET neg == s # <<>> /\ Head(s) = "-"
        ds == IF neg THEN Tail(s) ELSE s
        mag == StripZeros(ds)
    IN  IF ds = <<>> \/ ~FitsI64(neg, mag)
        THEN [ok |-> FALSE, v |-> IntV(FALSE, <<"0">>)]
        ELSE [ok |-> TRUE, v |-> IntV(neg /\ mag # <<"0">>, mag)]

\* s.parse::<f64>() of an optional '-', digits, '.', digits: Err exactly
\* when there is no digit at all.
ParseF64Ok(s) == \E i \in 1..Len(s) : s[i] \in Digits

\* parse_numeric substituting 0 for a bad integer without recording it.
ParseNumericSilent(c) ==
    LET c1 == IF peek_byte(c) = "-" THEN Bump(c) ELSE c
        c2 == ScanDigits(c1)
        is_float == peek_byte(c2) = "."
        c3 == IF is_float THEN ScanDigits(Bump(c2)) ELSE c2
        s == slice_to_str(c.pos, c3.pos)
    IN  IF is_float
        THEN IF ParseF64Ok(s)
             THEN [c |-> c3, v |-> NumV(s), errs |-> <<>>]
             ELSE [c |-> c3, v |-> NumV(<<"0", ".", "0">>),
                   errs |-> <<Err(c3, "InvalidFloatFormat", s)>>]
        ELSE IF ParseI64(s).ok
             THEN [c |-> c3, v |-> ParseI64(s).v, errs |-> <<>>]
             ELSE [c |-> c3, v |-> IntV(FALSE, <<"0">>), errs |-> <<>>]

\* std::str::from_utf8 of the slice never fails: the slice holds only '-',
\* digits and '.', so the InvalidUtf8InNumber branch is not reachable.
parse_numeric(c) ==
    LET c1 == IF peek_byte(c) = "-" THEN Bump(c) ELSE c
        c2 == ScanDigits(c1)
        is_float == peek_byte(c2) = "."
        c3 == IF is_float THEN ScanDigits(Bump(c2)) ELSE c2
        s == slice_to_str(c.pos, c3.pos)
    IN  IF is_float
        THEN IF ParseF64Ok(s)
             THEN [c |-> c3, v |-> NumV(s), errs |-> <<>>]
             ELSE [c |-> c3, v |-> NumV(<<"0", ".", "0">>),
                   errs |-> <<Err(c3, "InvalidFloatFormat", s)>>]
        ELSE IF ParseI64(s).ok
             THEN [c |-> c3, v |-> ParseI64(s).v, errs |-> <<>>]
             ELSE [c |-> c3, v |-> IntV(FALSE, <<"0">>),
                   errs |-> <<Err(c3, "InvalidIntegerFormat", s)>>]

-----------------------------------------------------------------------------
(* The call stack.  A frame is one activation of parse, parse_struct,      *)
(* parse_array, parse_tuple, parse_value or parse_field_value: fn names    *)
(* the function and pc the place in it; key, map, items, start (start_pos) *)
(* and name (the variant's id) are its locals.  wrap and variant tell      *)
(* parse_value what to build from the callee's result.  head and keyPos    *)
(* are bookkeeping of the model: the position at which the current         *)
(* iteration of the frame's loop began (-1 before the first), the position  *)
(* of the first byte of the key being read, errs0, the number of            *)
(* diagnostics recorded when the iteration began, and log, one per call of  *)
(* insert: the line and position of the key, the position its value was    *)
(* read from, the position parse_field_value left the cursor at, the value  *)
(* and the diagnostics recorded in the iteration.                           *)

Frame(fn, pc) ==
    [fn |-> fn, pc |-> pc, key |-> <<>>, map |-> <<>>, items |-> <<>>,
     start |-> 0, name |-> <<>>, wrap |-> "", variant |-> FALSE,
     head |-> -1, keyPos |-> 0, errs0 |-> 0, log |-> <<>>]

Top == stack[Len(stack)]

\* The 1-based line of position p: one more than the newlines before it.
TrueLine(p) == 1 + Cardinality({i \in 1..p : input[i] = "\n"})

Below == SubSeq(stack, 1, Len(stack) - 1)

cur == Cur(pos, line, column)

At(fn, pc) == phase = "running" /\ stack # <<>> /\ Top.fn = fn /\ Top.pc = pc

\* One step: the cursor moves to c, errs are pushed, the stack and the
\* returned value become stk and r.
Eff(c, errs, stk, r) ==
    /\ pos' = c.pos
    /\ line' = c.line
    /\ column' = c.column
    /\ errors' = errors \o errs
    /\ stack' = stk
    /\ ret' = r
    /\ UNCHANGED <<input, phase, root>>

Stay(f) == Append(Below, f)

Call(f, g) == Below \o <<f, g>>

-----------------------------------------------------------------------------
(* parse and parse_struct.                                                 *)

\* KeyStep leaving the newline of a line without a value unconsumed.
KeyStepKeepsNewline(c) ==
    LET k == parse_key(c) IN
    IF k.s = <<>>
    THEN [kind |-> "emptykey", key |-> <<>>, c |-> synchronize(k.c),
          errs |-> k.errs \o
                   (IF peek_byte(k.c) # None
                    THEN <<Err(k.c, "UnexpectedCharacter", <<peek_byte(k.c)>>)>>
                    ELSE <<>>)]
    ELSE LET c1 == IF peek_byte(k.c) = ":" THEN next_byte(k.c) ELSE k.c
             c2 == skip_horizontal_ws(c1)
         IN  IF peek_byte(c2) = "\n" \/ is_eof(c2)
             THEN [kind |-> "novalue", key |-> k.s, c |-> c2,
                   errs |-> k.errs \o <<Err(c2, "ExpectedValueOnSameLine", <<>>)>>]
             ELSE [kind |-> "field", key |-> k.s, c |-> c2, errs |-> k.errs]

\* KeyStep leaving the colon after the key unconsumed.
KeyStepKeepsColon(c) ==
    LET k == parse_key(c) IN
    IF k.s = <<>>
    THEN [kind |-> "emptykey", key |-> <<>>, c |-> synchronize(k.c),
          errs |-> k.errs \o
                   (IF peek_byte(k.c) # None
                    THEN <<Err(k.c, "UnexpectedCharacter", <<peek_byte(k.c)>>)>>
                    ELSE <<>>)]
    ELSE LET c2 == skip_horizontal_ws(k.c)
         IN  IF peek_byte(c2) = "\n" \/ is_eof(c2)
             THEN [kind |-> "novalue", key |-> k.s,
                   c |-> IF peek_byte(c2) = "\n" THEN next_byte(c2) ELSE c2,
                   errs |-> k.errs \o <<Err(c2, "ExpectedValueOnSameLine", <<>>)>>]
             ELSE [kind |-> "field", key |-> k.s, c |-> c2, errs |-> k.errs]

\* From parse_key to the call of parse_field_value (the same code in parse
\* and in parse_struct): "emptykey" after synchronize, "novalue" after
\* ExpectedValueOnSameLine, or "field" with the cursor where the value is
\* to be read.
\* KeyStep taking a colon for the separator after spaces and tabs as well.
KeyStepColonAfterWs(c) ==
    LET k == parse_key(c) IN
    IF k.s = <<>>
    THEN [kind |-> "emptykey", key |-> <<>>, c |-> synchronize(k.c),
          errs |-> k.errs \o
                   (IF peek_byte(k.c) # None
                    THEN <<Err(k.c, "UnexpectedCharacter", <<peek_byte(k.c)>>)>>
                    ELSE <<>>)]
    ELSE LET h == skip_horizontal_ws(k.c)
             c1 == IF peek_byte(h) = ":" THEN next_byte(h) ELSE k.c
             c2 == skip_horizontal_ws(c1)
         IN  IF peek_byte(c2) = "\n" \/ is_eof(c2)
             THEN [kind |-> "novalue", key |-> k.s,
                   c |-> IF peek_byte(c2) = "\n" THEN next_byte(c2) ELSE c2,
                   errs |-> k.errs \o <<Err(c2, "ExpectedValueOnSameLine", <<>>)>>]
             ELSE [kind |-> "field", key |-> k.s, c |-> c2, errs |-> k.errs]

KeyStep(c) ==
    LET k == parse_key(c) IN
    IF k.s = <<>>
    THEN [kind |-> "emptykey", key |-> <<>>, c |-> synchronize(k.c),
          errs |-> k.errs \o
                   (IF peek_byte(k.c) # None
                    THEN <<Err(k.c, "UnexpectedCharacter", <<peek_byte(k.c)>>)>>
                    ELSE <<>>)]
    ELSE LET c1 == IF peek_byte(k.c) = ":" THEN next_byte(k.c) ELSE k.c
             c2 == skip_horizontal_ws(c1)
         IN  IF peek_byte(c2) = "\n" \/ is_eof(c2)
             THEN [kind |-> "novalue", key |-> k.s,
                   c |-> IF peek_byte(c2) = "\n" THEN next_byte(c2) ELSE c2,
                   errs |-> k.errs \o <<Err(c2, "ExpectedValueOnSameLine", <<>>)>>]
             ELSE [kind |-> "field", key |-> k.s, c |-> c2, errs |-> k.errs]

\* One iteration of the loop of parse or parse_struct, from parse_key on.
KeyIteration(f) ==
    LET r == KeyStep(cur)
        g == [f EXCEPT !.head = pos, !.errs0 = Len(errors)]
    IN  IF r.kind = "field"
        THEN Eff(r.c, r.errs,
                 Call([g EXCEPT !.pc = "insert", !.key = r.key,
                                !.keyPos = skip_ws_and_comments(cur).pos,
                                !.start = r.c.pos],
                      Frame("field", "start")),
                 <<>>)
        ELSE Eff(r.c, r.errs, Stay(g), <<>>)

\* The kinds, with what they carry, of a list of diagnostics.
Kinds(es) == [i \in 1..Len(es) |-> [kind |-> es[i].kind, arg |-> es[i].arg]]

\* insert, require_newline_or_eof, skip_ws_and_comments: the end of an
\* iteration of parse or parse_struct.
InsertStep(f) ==
    LET r == require_newline_or_eof(cur) IN
    Eff(skip_ws_and_comments(r.c), r.errs,
        Stay([f EXCEPT !.pc = "loop", !.map = Insert(f.map, f.key, ret[1]),
                       !.log = Append(f.log,
                                      [line |-> TrueLine(f.keyPos),
                                       start |-> f.start, end |-> pos,
                                       key |-> f.keyPos, v |-> ret[1],
                                       kinds |-> Kinds(SubSeq(errors \o r.errs,
                                                              f.errs0 + 1,
                                                              Len(errors \o r.errs)))])]),
        <<>>)

ParseEnter ==
    /\ phase = "new"
    /\ phase' = "running"
    /\ pos' = skip_ws_and_comments(cur).pos
    /\ line' = skip_ws_and_comments(cur).line
    /\ column' = skip_ws_and_comments(cur).column
    /\ stack' = <<Frame("parse", "loop")>>
    /\ UNCHANGED <<input, errors, ret, root>>

ParseLoop ==
    /\ At("parse", "loop")
    /\ ~is_eof(cur)
    /\ KeyIteration(Top)

ParseInsert ==
    /\ At("parse", "insert")
    /\ Len(ret) = 1
    /\ InsertStep(Top)

\* ParseReturn leaving the loop whether or not the input is at its end.
ParseReturnAnywhere ==
    /\ At("parse", "loop")
    /\ phase' = "done"
    /\ root' = Top.map
    /\ stack' = <<>>
    /\ UNCHANGED <<input, pos, line, column, errors, ret>>

ParseReturn ==
    /\ At("parse", "loop")
    /\ is_eof(cur)
    /\ phase' = "done"
    /\ root' = Top.map
    /\ stack' = <<>>
    /\ UNCHANGED <<input, pos, line, column, errors, ret>>

StructEnter ==
    /\ At("struct", "start")
    /\ Eff(skip_ws_and_comments(cur), <<>>, Stay([Top EXCEPT !.pc = "loop"]), <<>>)

\* StructLoop returning an empty struct at end of input.
StructLoopDropsPartial ==
    /\ At("struct", "loop")
    /\ IF peek_byte(cur) = None
       THEN Eff(cur, <<Err(cur, "UnterminatedBlock", <<>>)>>, Below,
                <<RawStruct(<<>>)>>)
       ELSE IF peek_byte(cur) = "}"
       THEN Eff(next_byte(cur), <<>>, Below, <<RawStruct(Top.map)>>)
       ELSE KeyIteration(Top)

StructLoop ==
    /\ At("struct", "loop")
    /\ IF peek_byte(cur) = None
       THEN Eff(cur, <<Err(cur, "UnterminatedBlock", <<>>)>>, Below,
                <<RawStruct(Top.map)>>)
       ELSE IF peek_byte(cur) = "}"
       THEN Eff(next_byte(cur), <<>>, Below, <<RawStruct(Top.map)>>)
       ELSE KeyIteration(Top)

StructInsert ==
    /\ At("struct", "insert")
    /\ Len(ret) = 1
    /\ InsertStep(Top)

-----------------------------------------------------------------------------
(* parse_field_value.                                                      *)

\* while let Some(b) = self.peek_byte() { if b is '\n' or '#' break; next }
RECURSIVE RestOfLine(_)
RestOfLine(c) ==
    IF c.pos >= len \/ Byte(c.pos) = "\n" \/ Byte(c.pos) = "#" THEN c
    ELSE RestOfLine(next_byte(c))

\* FieldRest slicing from the end of the first value instead of start_pos.
FieldRestFromFirst(start_pos, c, first) ==
    LET c1 == skip_horizontal_ws(c) IN
    IF peek_byte(c1) \in {"\n", "#", "}", None}
    THEN [c |-> c1, v |-> first]
    ELSE LET c2 == RestOfLine(c1)
             trimmed == Trim(slice_to_str(c1.pos, c2.pos))
         IN  IF trimmed = <<>>
             THEN [c |-> Cur(start_pos, c2.line, c2.column), v |-> first]
             ELSE [c |-> c2, v |-> StrV(trimmed)]

\* FieldRest returning the first value without reading the rest of the line.
FieldRestNoAbsorb(start_pos, c, first) ==
    [c |-> skip_horizontal_ws(c), v |-> first]

\* parse_field_value after its first value: the cursor and the value it
\* returns.  The fallback assigns pos alone: line and column stay.
FieldRest(start_pos, c, first) ==
    LET c1 == skip_horizontal_ws(c) IN
    IF peek_byte(c1) \in {"\n", "#", "}", None}
    THEN [c |-> c1, v |-> first]
    ELSE LET c2 == RestOfLine(c1)
             trimmed == Trim(slice_to_str(start_pos, c2.pos))
         IN  IF trimmed = <<>>
             THEN [c |-> Cur(start_pos, c2.line, c2.column), v |-> first]
             ELSE [c |-> c2, v |-> StrV(trimmed)]

FieldValueEnter ==
    /\ At("field", "start")
    /\ LET c == skip_horizontal_ws(cur) IN
       IF peek_byte(c) = "("
       THEN Eff(c, <<>>, Stay(Frame("tuple", "start")), <<>>)
       ELSE Eff(c, <<>>,
                Call([Top EXCEPT !.pc = "after", !.start = c.pos],
                     Frame("value", "start")),
                <<>>)

FieldValueFinish ==
    /\ At("field", "after")
    /\ Len(ret) = 1
    /\ LET r == FieldRest(Top.start, cur, ret[1]) IN
       Eff(r.c, <<>>, Below, <<r.v>>)

-----------------------------------------------------------------------------
(* parse_value.                                                            *)

Classify(id) ==
    IF id = <<"t", "r", "u", "e">> THEN BoolV(TRUE)
    ELSE IF id = <<"f", "a", "l", "s", "e">> THEN BoolV(FALSE)
    ELSE StrV(id)

\* VariantArm looking for the payload after horizontal whitespace.
VariantArmAfterWs(f, c) ==
    LET n == parse_variant_name(c)
        m == skip_horizontal_ws(n.c)
        g == [f EXCEPT !.pc = "wrap", !.variant = TRUE, !.name = n.s]
    IN  CASE peek_byte(m) = "(" ->
               Eff(m, <<>>,
                   Call([g EXCEPT !.wrap = "Tuple"], Frame("tuple", "start")), <<>>)
          [] peek_byte(m) = "{" ->
               Eff(next_byte(m), <<>>,
                   Call([g EXCEPT !.wrap = "Struct"], Frame("struct", "start")), <<>>)
          [] peek_byte(m) = "[" ->
               Eff(next_byte(m), <<>>,
                   Call([g EXCEPT !.wrap = "Array"], Frame("array", "start")), <<>>)
          [] OTHER -> Eff(n.c, <<>>, Below, <<VariantV(n.s, <<>>)>>)

\* The ':' arm of parse_value, c after the ':'.
VariantArm(f, c) ==
    LET n == parse_variant_name(c)
        g == [f EXCEPT !.pc = "wrap", !.variant = TRUE, !.name = n.s]
    IN  CASE peek_byte(n.c) = "(" ->
               Eff(n.c, <<>>,
                   Call([g EXCEPT !.wrap = "Tuple"], Frame("tuple", "start")), <<>>)
          [] peek_byte(n.c) = "{" ->
               Eff(next_byte(n.c), <<>>,
                   Call([g EXCEPT !.wrap = "Struct"], Frame("struct", "start")), <<>>)
          [] peek_byte(n.c) = "[" ->
               Eff(next_byte(n.c), <<>>,
                   Call([g EXCEPT !.wrap = "Array"], Frame("array", "start")), <<>>)
          [] OTHER -> Eff(n.c, <<>>, Below, <<VariantV(n.s, <<>>)>>)

ValueEnter ==
    /\ At("value", "start")
    /\ LET c == skip_ws_and_comments(cur)
           b == peek_byte(c)
       IN  CASE b = "(" -> Eff(c, <<>>, Stay(Frame("tuple", "start")), <<>>)
             [] b = "\"" ->
                  Eff(parse_string(c).c, parse_string(c).errs, Below,
                      <<StrV(parse_string(c).s)>>)
             [] b = "{" ->
                  Eff(next_byte(c), <<>>,
                      Call([Top EXCEPT !.pc = "wrap", !.wrap = "Struct"],
                           Frame("struct", "start")), <<>>)
             [] b = "[" ->
                  Eff(next_byte(c), <<>>,
                      Call([Top EXCEPT !.pc = "wrap", !.wrap = "Array"],
                           Frame("array", "start")), <<>>)
             [] b = ":" -> VariantArm(Top, next_byte(c))
             [] b \in Digits \cup {"-"} ->
                  Eff(parse_numeric(c).c, parse_numeric(c).errs, Below,
                      <<parse_numeric(c).v>>)
             [] b = None ->
                  Eff(c, <<Err(c, "UnexpectedEndOfInput", <<>>)>>, Below,
                      <<StrV(<<>>)>>)
             [] OTHER ->
                  Eff(parse_identifier_or_string(c).c, <<>>, Below,
                      <<Classify(parse_identifier_or_string(c).s)>>)

\* Value::Struct(..), Value::Array(..), Some(Box::new(..)) and
\* Value::Variant(id, payload) around what the callee returned.
Wrapped(f, r) ==
    LET inner == CASE f.wrap = "Struct" -> StructV(r.items)
                   [] f.wrap = "Array" -> ArrayV(r.items)
                   [] OTHER -> r
    IN  IF f.variant THEN VariantV(f.name, <<inner>>) ELSE inner

ValueWrap ==
    /\ At("value", "wrap")
    /\ Len(ret) = 1
    /\ Eff(cur, <<>>, Below, <<Wrapped(Top, ret[1])>>)

-----------------------------------------------------------------------------
(* parse_array.                                                            *)

ArrayEnter ==
    /\ At("array", "start")
    /\ LET c == skip_ws_and_comments(cur) IN
       IF peek_byte(c) = "]"
       THEN Eff(next_byte(c), <<>>, Below, <<RawVec(<<>>)>>)
       ELSE Eff(c, <<>>, Stay([Top EXCEPT !.pc = "loop"]), <<>>)

\* An iteration that begins where the one before began repeats it for ever
\* (the parser's state but for the growing array is the same): the model
\* stops there.
ArrayLoop ==
    /\ At("array", "loop")
    /\ Top.head # pos
    /\ LET c == skip_ws_and_comments(cur) IN
       IF peek_byte(c) = "]"
       THEN Eff(next_byte(c), <<>>, Below, <<RawVec(Top.items)>>)
       ELSE IF is_eof(c)
       THEN Eff(c, <<Err(c, "UnexpectedEndOfInput", <<>>)>>, Below,
                <<RawVec(Top.items)>>)
       ELSE Eff(c, <<>>,
                Call([Top EXCEPT !.pc = "after", !.head = pos],
                     Frame("value", "start")),
                <<>>)

\* ArrayAfter putting the new element in front of the others.
ArrayAfterPrepends ==
    /\ At("array", "after")
    /\ Len(ret) = 1
    /\ LET c == skip_ws_and_comments(cur)
           array == <<ret[1]>> \o Top.items
       IN  CASE peek_byte(c) = "]" ->
                  Eff(next_byte(c), <<>>, Below, <<RawVec(array)>>)
             [] peek_byte(c) = None ->
                  Eff(c, <<Err(c, "UnexpectedEndOfInput", <<>>)>>, Below,
                      <<RawVec(array)>>)
             [] OTHER ->
                  Eff(c, <<>>, Stay([Top EXCEPT !.pc = "loop", !.items = array]),
                      <<>>)

ArrayAfter ==
    /\ At("array", "after")
    /\ Len(ret) = 1
    /\ LET c == skip_ws_and_comments(cur)
           array == Append(Top.items, ret[1])
       IN  CASE peek_byte(c) = "]" ->
                  Eff(next_byte(c), <<>>, Below, <<RawVec(array)>>)
             [] peek_byte(c) = None ->
                  Eff(c, <<Err(c, "UnexpectedEndOfInput", <<>>)>>, Below,
                      <<RawVec(array)>>)
             [] OTHER ->
                  Eff(c, <<>>, Stay([Top EXCEPT !.pc = "loop", !.items = array]),
                      <<>>)

-----------------------------------------------------------------------------
(* parse_tuple.                                                            *)

\* while let Some(b) = self.peek_byte() { if b is ')', '#', '\n' break; next }
RECURSIVE FreeText(_)
FreeText(c) ==
    IF c.pos >= len \/ Byte(c.pos) \in {")", "#", "\n"} THEN c
    ELSE FreeText(next_byte(c))

\* items.push(v) and the rest of the iteration.
TupleTail(f, items, c0) ==
    LET c == skip_ws_and_comments(c0) IN
    CASE peek_byte(c) = ")" -> Eff(next_byte(c), <<>>, Below, <<TupleV(items)>>)
      [] peek_byte(c) = None -> Eff(c, <<>>, Below, <<TupleV(items)>>)
      [] OTHER -> Eff(c, <<>>, Stay([f EXCEPT !.pc = "loop", !.items = items]), <<>>)

TupleEnter ==
    /\ At("tuple", "start")
    /\ Eff(next_byte(cur), <<>>, Stay([Top EXCEPT !.pc = "loop"]), <<>>)

\* The None arm of `match self.peek_byte()` is not reachable: is_eof was
\* checked just before.
TupleLoop ==
    /\ At("tuple", "loop")
    /\ LET c == skip_ws_and_comments(cur)
           f == [Top EXCEPT !.head = pos]
           e == FreeText(c)
           trimmed == Trim(slice_to_str(c.pos, e.pos))
       IN  IF peek_byte(c) = ")"
           THEN Eff(next_byte(c), <<>>, Below, <<TupleV(Top.items)>>)
           ELSE IF is_eof(c)
           THEN Eff(c, <<Err(c, "UnexpectedEndOfInput", <<>>)>>, Below,
                    <<TupleV(Top.items)>>)
           ELSE IF peek_byte(c) \in {"\"", "{", "[", "(", "-", ":"} \cup Digits
           THEN Eff(c, <<>>, Call([f EXCEPT !.pc = "after"], Frame("value", "start")),
                    <<>>)
           ELSE IF trimmed = <<>>
           THEN Eff(e, <<>>, Call([f EXCEPT !.pc = "after"], Frame("value", "start")),
                    <<>>)
           ELSE TupleTail(f, Append(f.items, Classify(trimmed)), e)

TupleAfter ==
    /\ At("tuple", "after")
    /\ Len(ret) = 1
    /\ TupleTail(Top, Append(Top.items, ret[1]), cur)

-----------------------------------------------------------------------------
(* The inputs and the specification.                                       *)

Bytes(str) == [i \in 1..Len(str) |-> SubSeq(str, i, i)]

\* The longest generated input, in tokens.
MaxTok == 4

\* All the concatenations of at most n tokens of T.
RECURSIVE Concats(_, _)
Concats(T, n) ==
    IF n = 0 THEN {<<>>}
    ELSE Concats(T, n - 1) \cup {Bytes(t) \o d : t \in T, d \in Concats(T, n - 1)}

\* Fields on lines: words, numbers, comments, line ends.
LineTokens == {"k ", "a", " ", "\n", "#", "1"}

\* Brackets after a key.
NestTokens == {"k ", "[", ")", "{", "}", "(1"}

\* Numbers: signs, digits, the decimal point.
NumTokens == {"k ", "-", "0", "7", ".", "\n"}

\* Variants and colons.
VariantTokens == {"k", ":", " ", "v(", "{", "\n"}

\* Quoted strings and escapes.
QuoteTokens == {"k", "\"", "\\", "n", " ", "\n"}

\* Carriage returns, form feeds and comments.
CrTokens == {"k ", "\r", "\f", "v", "\n", "#"}

\* Elements of arrays and tuples.
ArrayTokens == {"k [", "1", "a ", "(", ")", "]"}

TokenFamilies ==
    {LineTokens, NestTokens, NumTokens, VariantTokens, QuoteTokens, CrTokens,
     ArrayTokens}

\* The text of a value after a key.
ValueTokens == {"1", " a", "[", "]", "(", ")", ":v", "{}"}

\* The same field twice, with the colon and with a space in its place.
ColonPairs ==
    {Bytes("k:") \o v \o Bytes("\nk ") \o v \o Bytes("\n") :
        v \in Concats(ValueTokens, MaxTok - 1)}

\* Whole documents, among them those of the tests and of the specification.
Documents ==
    { "k: 1\nk: 2\n", "k [)", "f: v1 g: v2\nh: 12\n", "k (1) j 2\n",
      "k {\n} x\n", "k #c\nv\n", "k:\r\nv w\n", "k \f\r\n",
      "k 9223372036854775808\n", "k 9223372036854775807",
      "k -9223372036854775808\n", "k: -042\n",
      "o: {\n  a: 1\n", "o {\n p {\n a 1\n",
      "a: 10 # c\nb: 20\n", "a v#c\nb 2\n", "a v w # c\nb 2\n",
      "w :x(7 8)\ns: :f\n", "v [:a{b 1} :c[1] :d]\n", "t (:a :b(1) {c 2})\n",
      "k [:a [1] :b]\n", "k [1 2 3]\n", "k (1 2 3)\n", "k: { a: 1 }", "t (a b c)\n", "t (\f)\n", "t (\f#c\n1)\n",
      "t ( false  #c\n x y\n\"q\" -1 :v [1] true)\n", "key : x\nkey2 :name\n", "k \"a\\\"\nb", "p --f v\n",
      "o {\n k: {a 1}\n k  {a 1}\n j: - x\n j  - x\n}\n", "k [a b (c d) \"e f\" true]\n", "k\nj: \n\"q\"\nz 9\n", "o {\n k\n j 1\n}\n",
      "t (true x y \"s\" -1.5)\n", "\"q\\\"\\n\": \"s\\t\"\n" }

\* Integer texts that are no signed 64-bit integer.
BadInts == {"-", "9223372036854775808", "-9223372036854775809", "99999999999999999999"}

\* A field with such a value, and a good field on the next line.
BadIntDocs == {Bytes("k ") \o Bytes(b) \o Bytes("\nj 1\n") : b \in BadInts}

\* The document with every LF line terminator replaced by CR LF.
RECURSIVE Crlf(_)
Crlf(d) ==
    IF d = <<>> THEN <<>>
    ELSE (IF Head(d) = "\n" THEN <<"\r", "\n">> ELSE <<Head(d)>>) \o Crlf(Tail(d))

\* Documents given with both kinds of line terminator.
LfDocs == {"a: 10\nb: true\nc: \"s\"\n", "k\nj 1\n", "o {\n a 1\n}\n"}

CrlfDocs == {Bytes(d) : d \in LfDocs} \cup {Crlf(Bytes(d)) : d \in LfDocs}

Inputs ==
    {Bytes(d) : d \in Documents}
        \cup UNION {Concats(T, MaxTok) : T \in TokenFamilies}
        \cup ColonPairs
        \cup BadIntDocs
        \cup CrlfDocs

\* Parser::new.
Init ==
    /\ input \in Inputs
    /\ pos = 0
    /\ line = 1
    /\ column = 1
    /\ errors = <<>>
    /\ stack = <<>>
    /\ ret = <<>>
    /\ phase = "new"
    /\ root = <<>>

Next ==
    \/ ParseEnter
    \/ ParseLoop
    \/ ParseInsert
    \/ ParseReturn
    \/ StructEnter
    \/ StructLoop
    \/ StructInsert
    \/ FieldValueEnter
    \/ FieldValueFinish
    \/ ValueEnter
    \/ ValueWrap
    \/ ArrayEnter
    \/ ArrayLoop
    \/ ArrayAfter
    \/ TupleEnter
    \/ TupleLoop
    \/ TupleAfter

Spec == Init /\ [][Next]_vars

-----------------------------------------------------------------------------
(* Properties.                                                             *)

\* A frame of parse or parse_struct holds the value parse_field_value
\* returned and is about to insert it.
PendingInsert ==
    /\ phase = "running"
    /\ stack # <<>>
    /\ Top.pc = "insert"
    /\ Len(ret) = 1

\* parse_field_value holds its first value and is about to look at what
\* follows it.
PendingField == At("field", "after") /\ Len(ret) = 1

\* The first position at or after p that is the end of input, a newline or
\* a '#'.
LineEnd(p) ==
    CHOOSE q \in p..len :
        /\ q = len \/ Byte(q) \in {"\n", "#"}
        /\ \A i \in p..(q - 1) : Byte(i) \notin {"\n", "#"}

\* C1: every iteration of the loops of parse, parse_struct, parse_array and
\* parse_tuple advances the read position or leaves the loop, so parse
\* terminates: a frame about to begin an iteration stands further in the
\* input than where its previous iteration began.
C1_EveryLoopIterationAdvances ==
    (phase = "running" /\ stack # <<>> /\ Top.pc = "loop" /\ Top.head >= 0)
        => pos > Top.head

\* C2: after a key/value pair is inserted the struct holds exactly one entry
\* for the key, and it is the value just inserted (a later duplicate
\* overwrites the earlier one).
C2_LastDuplicateWins ==
    [][PendingInsert =>
          LET map == stack'[Len(stack)].map IN
          /\ Cardinality({i \in 1..Len(map) : map[i].k = Top.key}) = 1
          /\ Get(map, Top.key) = ret[1]]_vars

\* C3 (as stated): when the first value of a field is followed, after
\* horizontal whitespace, by a byte other than newline, '#', '}' or end of
\* input, the field's value is the String of the line from the start of the
\* first token up to the next newline or '#', trimmed; otherwise it is the
\* first value.
C3_FieldValueRule ==
    [][PendingField =>
          LET tok == skip_ws_and_comments(Cur(Top.start, 1, 1)).pos IN
          ret' = IF peek_byte(skip_horizontal_ws(cur)) \in {"\n", "#", "}", None}
                 THEN ret
                 ELSE <<StrV(Trim(slice_to_str(tok, LineEnd(tok))))>>]_vars

\* C3 (amended): the String is the text from the position the value was read
\* from (after the key, its colon and horizontal whitespace) up to the first
\* newline or '#' that follows the first value, trimmed; when that text
\* trims to nothing the field keeps the first value.
C3_FieldValueRuleAmended ==
    [][PendingField =>
          LET after == skip_horizontal_ws(cur).pos
              text == Trim(slice_to_str(Top.start, LineEnd(after)))
          IN  ret' = IF peek_byte(skip_horizontal_ws(cur)) \in {"\n", "#", "}", None}
                        \/ text = <<>>
                     THEN ret
                     ELSE <<StrV(text)>>]_vars

\* A field whose first value "v1" was followed by more text on its line has
\* been given the whole line as its value.
C3_Witness ==
    /\ PendingInsert
    /\ Top.key = <<"f">>
    /\ ret[1] = StrV(Bytes("v1 g: v2"))

\* The log of every frame of parse or parse_struct on the stack.
Logs == {stack[i].log : i \in 1..Len(stack)}

NumErr(es, kind) == Cardinality({i \in 1..Len(es) : es[i].kind = kind})

\* The end of the run of bytes other than delimiters that starts at p.
TokenEnd(p) ==
    CHOOSE q \in p..len :
        /\ q = len \/ Byte(q) \in Delimiters
        /\ \A i \in p..(q - 1) : Byte(i) \notin Delimiters

\* The end of the run of spaces and tabs that starts at p.
HwsEnd(p) ==
    CHOOSE q \in p..len :
        /\ q = len \/ Byte(q) \notin {" ", "\t"}
        /\ \A i \in p..(q - 1) : Byte(i) \in {" ", "\t"}

\* The end of the run of digits that starts at p.
DigitsEnd(p) ==
    CHOOSE q \in p..len :
        /\ q = len \/ Byte(q) \notin Digits
        /\ \A i \in p..(q - 1) : Byte(i) \in Digits

\* parse or parse_struct is about to read a key.
LoopHead ==
    \/ At("parse", "loop") /\ ~is_eof(cur)
    \/ At("struct", "loop") /\ peek_byte(cur) \notin {None, "}"}

\* Where the line of a key without a value stops: the key that starts at a
\* (quoted or not, not empty), its optional colon, spaces and tabs.
KeyLineStop(a) ==
    LET ke == IF Byte(a) = "\"" THEN parse_string(Cur(a, 1, 1)).c.pos
              ELSE TokenEnd(a)
        kc == IF ke < len /\ Byte(ke) = ":" THEN ke + 1 ELSE ke
    IN  HwsEnd(kc)

\* The next key is followed on its line by spaces and tabs only.
NoValueLine ==
    LET a == skip_ws_and_comments(cur).pos IN
    /\ a < len
    /\ IF Byte(a) = "\"" THEN parse_string(Cur(a, 1, 1)).s # <<>>
       ELSE TokenEnd(a) > a
    /\ KeyLineStop(a) = len \/ Byte(KeyLineStop(a)) = "\n"

\* C5: when a key, with or without its colon, is followed on its line only
\* by horizontal whitespace and then a newline or end of input, exactly one
\* ExpectedValueOnSameLine diagnostic is recorded, no entry is inserted, the
\* newline is consumed if present and the loop of the struct resumes.
C5_KeyWithoutValue ==
    [][(LoopHead /\ NoValueLine) =>
          LET e == KeyLineStop(skip_ws_and_comments(cur).pos)
              f == stack'[Len(stack)]
          IN  /\ NumErr(errors', "ExpectedValueOnSameLine")
                    = NumErr(errors, "ExpectedValueOnSameLine") + 1
              /\ Len(stack') = Len(stack)
              /\ f.fn = Top.fn /\ f.pc = "loop" /\ f.map = Top.map
              /\ ret' = <<>>
              /\ pos' = IF e < len THEN e + 1 ELSE e]_vars

\* Inside a block, a key alone on its line has been skipped with its
\* newline and the diagnostic recorded.
C5_Witness ==
    /\ At("struct", "loop")
    /\ Top.head >= 0
    /\ Top.map = <<>>
    /\ errors # <<>>
    /\ errors[Len(errors)].kind = "ExpectedValueOnSameLine"
    /\ Byte(pos - 1) = "\n"
    /\ Byte(pos - 2) = "k"

\* C6: whenever parse or parse_struct inserts an entry, the first byte of
\* the text consumed as the value lies on the line of the key: no newline
\* stands between the end of the key and the first token of the value.
C6_ValueOnKeyLine ==
    PendingInsert =>
        TrueLine(skip_ws_and_comments(Cur(Top.start, 1, 1)).pos)
            = TrueLine(Top.start)

\* The value of the field being inserted is an optional '-' and digits,
\* alone on its line.
IntLine ==
    LET d0 == IF Byte(Top.start) = "-" THEN Top.start + 1 ELSE Top.start
        e == HwsEnd(DigitsEnd(d0))
    IN  /\ DigitsEnd(d0) > d0
        /\ e = len \/ Byte(e) = "\n"

\* The sign and the digits, without leading zeros, of that value.
IntLineNeg == Byte(Top.start) = "-"

IntLineDigits ==
    LET d0 == IF IntLineNeg THEN Top.start + 1 ELSE Top.start
    IN  StripZeros(slice_to_str(d0, DigitsEnd(d0)))

\* The field was read as the Integer of exactly that value and nothing was
\* recorded while reading it.
IntLineExact ==
    /\ ret[1] = IntV(IntLineNeg /\ IntLineDigits # <<"0">>, IntLineDigits)
    /\ Len(errors) = Top.errs0
    /\ require_newline_or_eof(cur).errs = <<>>

\* C7 (as stated): a field whose value matches -?[0-9]+, with any number of
\* digits, and is the only token on its line is read as the Integer of
\* exactly that value and no diagnostic is recorded.
C7_IntegerFidelity ==
    (PendingInsert /\ IntLine) => IntLineExact

\* C7 (amended): the same for every such value within the range of a signed
\* 64-bit integer.
C7_IntegerFidelityInRange ==
    (PendingInsert /\ IntLine /\ FitsI64(IntLineNeg, IntLineDigits))
        => IntLineExact

\* "-042" has been read as Integer -42.
C7_Witness ==
    /\ PendingInsert
    /\ IntLine
    /\ IntLineNeg
    /\ ret[1] = IntV(TRUE, <<"4", "2">>)

\* C8: parse_value on ':' and a name gives Variant(name, payload); the
\* payload is present exactly when the byte right after the name is '(',
\* '{' or '[', and is then a Tuple, a Struct or an Array; anything else
\* after the name gives Variant(name, none) with the cursor after the name.
C8_VariantPayload ==
    [][/\ (At("value", "start") /\ peek_byte(skip_ws_and_comments(cur)) = ":") =>
            LET a == skip_ws_and_comments(cur).pos + 1
                q == TokenEnd(a)
                nb == IF q < len THEN Byte(q) ELSE None
                f == stack'[Len(stack)]
            IN  IF nb \in {"(", "{", "["}
                THEN /\ ret' = <<>>
                     /\ Len(stack') = Len(stack) + 1
                     /\ f.pc = "wrap" /\ f.variant /\ f.name = slice_to_str(a, q)
                     /\ <<f.wrap, stack'[Len(stack) + 1].fn>> =
                            CASE nb = "(" -> <<"Tuple", "tuple">>
                              [] nb = "{" -> <<"Struct", "struct">>
                              [] nb = "[" -> <<"Array", "array">>
                ELSE /\ ret' = <<VariantV(slice_to_str(a, q), <<>>)>>
                     /\ stack' = Below
                     /\ pos' = q
       /\ (At("value", "wrap") /\ Top.variant /\ Len(ret) = 1) =>
            /\ Len(ret') = 1
            /\ ret'[1].t = "Variant"
            /\ ret'[1].s = Top.name
            /\ Len(ret'[1].items) = 1
            /\ ret'[1].items[1].t = Top.wrap]_vars

\* An array of three variants has been read: one with a Struct payload, one
\* with an Array payload and one without payload.
C8_Witness ==
    /\ phase = "done"
    /\ Len(root) = 1
    /\ root[1].v.t = "Array"
    /\ Len(root[1].v.items) = 3
    /\ root[1].v.items[1].t = "Variant"
    /\ Len(root[1].v.items[1].items) = 1
    /\ root[1].v.items[1].items[1].t = "Struct"
    /\ root[1].v.items[2].t = "Variant"
    /\ root[1].v.items[2].items = <<ArrayV(<<IntV(FALSE, <<"1">>)>>)>>
    /\ root[1].v.items[3] = VariantV(<<"d">>, <<>>)

\* C9: a block still open at end of input records exactly one
\* UnterminatedBlock diagnostic and returns the fields read so far; that
\* Struct is the value of the field and is inserted under the block's key.
C9_UnterminatedBlock ==
    [][/\ (At("struct", "loop") /\ is_eof(cur)) =>
            /\ Len(errors') = Len(errors) + 1
            /\ errors'[Len(errors')].kind = "UnterminatedBlock"
            /\ SubSeq(errors', 1, Len(errors)) = errors
            /\ stack' = Below
            /\ ret' = <<RawStruct(Top.map)>>
       /\ (At("value", "wrap") /\ is_eof(cur) /\ Len(ret) = 1 /\ ~Top.variant
              /\ ret[1].t = "RawStruct") =>
            /\ ret' = <<StructV(ret[1].items)>>
            /\ errors' = errors
       /\ (PendingField /\ is_eof(cur)) =>
            /\ ret' = ret
            /\ errors' = errors
       /\ (PendingInsert /\ is_eof(cur) /\ ~HasKey(Top.map, Top.key)) =>
            /\ Get(stack'[Len(stack)].map, Top.key) = ret[1]
            /\ errors' = errors]_vars

\* "o: {" with one field and no closing brace: o is bound to the Struct of
\* that field and one diagnostic was recorded.
C9_Witness ==
    /\ phase = "done"
    /\ Len(errors) = 1
    /\ errors[1].kind = "UnterminatedBlock"
    /\ root = <<Entry(<<"o">>,
                      StructV(<<Entry(<<"a">>, IntV(FALSE, <<"1">>))>>))>>

\* The field being inserted has a value token right after its key, followed
\* on its line by a '#', with no quote, bracket, brace or parenthesis before
\* the '#'.
CommentLine ==
    LET h == LineEnd(Top.start) IN
    /\ h < len
    /\ Byte(h) = "#"
    /\ h > Top.start
    /\ Byte(Top.start) \notin {" ", "\t", "\r"}
    /\ \A i \in Top.start..(h - 1) :
           Byte(i) \notin {"\"", "{", "}", "[", "]", "(", ")"}

\* The value stops before the '#', the end of the line records nothing and
\* the cursor moves to the line after the comment.
CommentStripped ==
    LET h == LineEnd(Top.start)
        nl == CHOOSE q \in h..len :
                  /\ q = len \/ Byte(q) = "\n"
                  /\ \A i \in h..(q - 1) : Byte(i) # "\n"
    IN  /\ pos <= h
        /\ errors' = errors
        /\ pos' >= (IF nl < len THEN nl + 1 ELSE len)

\* C10: for a field line of key, value, '#' and comment text,
\* with or without whitespace before the '#', the value holds no byte from
\* the '#' on, the comment records no diagnostic and the next line is read
\* as a new field.
C10_CommentStripped ==
    [][(PendingInsert /\ CommentLine) => CommentStripped]_vars

\* parse_array holds the element parse_value returned.
PendingElement == At("array", "after") /\ Len(ret) = 1

\* Where the text of that element starts.
ElementStart == skip_ws_and_comments(Cur(Top.head, 1, 1)).pos

\* C11: inside [...] every value parse_value returns becomes one element of
\* its own, appended after the elements read before it; an element that does
\* not start with a quote, bracket, brace, parenthesis or colon is read from
\* one whitespace-free run of bytes, so atoms are never merged into one
\* String, and an element is a Tuple only when its text starts with '('.
C11_ArrayElements ==
    [][PendingElement =>
          /\ (IF Len(stack') < Len(stack) THEN ret'[1].items
              ELSE stack'[Len(stack)].items) = Append(Top.items, ret[1])
          /\ ret[1].t = "Tuple" => Byte(ElementStart) = "("
          /\ Byte(ElementStart) \notin {"\"", "[", "{", "(", ":"} =>
                /\ ret[1].t \in {"Str", "Bool", "Int", "Num"}
                /\ \A i \in ElementStart..(pos - 1) :
                       Byte(i) \notin {" ", "\t", "\n", "\r"}]_vars

\* "[1 2 3]" has been read as an array of three Integers.
C11_Witness ==
    /\ phase = "done"
    /\ root = <<Entry(<<"k">>, ArrayV(<<IntV(FALSE, <<"1">>),
                                        IntV(FALSE, <<"2">>),
                                        IntV(FALSE, <<"3">>)>>))>>

\* The first newline at or after p, or the end of input.
NewlineFrom(p) ==
    CHOOSE q \in p..len :
        /\ q = len \/ Byte(q) = "\n"
        /\ \A i \in p..(q - 1) : Byte(i) # "\n"

\* The end of the text of a logged field: the end of the line on which
\* parse_field_value stopped.
FieldTextEnd(e) == NewlineFrom(IF e.end > e.start THEN e.end ELSE e.start)

\* Two logged fields of one struct whose texts, from the key to the end of
\* the line the value ends on, are the same but for the byte right after
\* the key: a colon in d, a space in e.
ColonPair(d, e) ==
    LET n == FieldTextEnd(d) - d.key
        c == IF Byte(d.key) = "\"" THEN parse_string(Cur(d.key, 1, 1)).c.pos
             ELSE TokenEnd(d.key)
    IN  /\ FieldTextEnd(e) - e.key = n
        /\ (FieldTextEnd(d) = len) = (FieldTextEnd(e) = len)
        /\ c < d.key + n
        /\ Byte(c) = ":"
        /\ Byte(e.key + (c - d.key)) = " "
        /\ \A i \in 0..(n - 1) :
               i # c - d.key => Byte(d.key + i) = Byte(e.key + i)

\* C12: `key: value` and `key value` give the same value and the same
\* diagnostics (kinds and what they carry), at the root and inside blocks,
\* whatever the value is.
C12_ColonOptional ==
    \A log \in Logs : \A i, j \in 1..Len(log) :
        ColonPair(log[i], log[j]) =>
            /\ log[i].v = log[j].v
            /\ log[i].kinds = log[j].kinds

\* Inside a block, "k: {a 1}" and "k  {a 1}" have been read, and "j: - x"
\* and "j  - x" with the diagnostic of the lone '-'.
C12_Witness ==
    /\ At("struct", "loop")
    /\ Len(Top.log) = 4
    /\ ColonPair(Top.log[1], Top.log[2])
    /\ ColonPair(Top.log[3], Top.log[4])
    /\ Top.log[1].v.t = "Struct"
    /\ Top.log[3].kinds # <<>>

\* The text of the field being inserted, from where the value was looked for
\* to the end of the line, trimmed.
FieldLineText == Trim(slice_to_str(Top.start, NewlineFrom(Top.start)))

\* That text is free text of several words: it does not begin with a quote,
\* bracket, brace, parenthesis or colon and holds no '#'.
FreeTextLine ==
    /\ Byte(Top.start) \notin {"\"", "[", "{", "(", ":", "\r", "\f"}
    /\ \A i \in Top.start..(NewlineFrom(Top.start) - 1) : Byte(i) # "#"
    /\ \E i \in 1..Len(FieldLineText) : FieldLineText[i] \in {" ", "\t"}

\* C13: a field whose value is unquoted free text of several words running
\* to the end of its line is read as exactly that text, as one trimmed
\* String, and no diagnostic is recorded, whatever the first word is.
C13_FreeText ==
    (PendingInsert /\ FreeTextLine) =>
        /\ ret[1] = StrV(FieldLineText)
        /\ Len(errors) = Top.errs0
        /\ require_newline_or_eof(cur).errs = <<>>

\* The input holds nothing but whitespace (space, tab, CR, LF) and comments:
\* every other byte stands between a '#' and the end of its line.
BlankInput ==
    \A i \in 0..(len - 1) :
        \/ Byte(i) \in {" ", "\t", "\r", "\n"}
        \/ \E j \in 0..i : Byte(j) = "#" /\ \A m \in j..i : Byte(m) # "\n"

\* C14: for empty input and for input of whitespace and comments only, the
\* first skip takes the cursor to the end of input, no key is read, and
\* parse returns an empty root Struct with an empty diagnostics list.
C14_BlankInput ==
    BlankInput =>
        /\ phase = "running" => pos = len /\ stack = <<Frame("parse", "loop")>>
        /\ phase = "done" => root = <<>>
        /\ errors = <<>>

\* An input with a comment, text in it and a line end has been parsed.
C14_Witness ==
    /\ phase = "done"
    /\ BlankInput
    /\ \E i, j, m \in 0..(len - 1) :
           /\ i < j /\ j < m
           /\ Byte(i) = "#"
           /\ Byte(j) \notin {" ", "\t", "\r", "\n", "#"}
           /\ Byte(m) = "\n"

\* The condition under which each step of the parser is taken: the frame on
\* top of the stack and the place in its code, whether a callee has
\* returned a value, and for the loops whether the input is at its end.
StepGuards ==
    [ParseEnter |-> phase = "new",
     ParseLoop |-> At("parse", "loop") /\ ~is_eof(cur),
     ParseInsert |-> At("parse", "insert") /\ Len(ret) = 1,
     ParseReturn |-> At("parse", "loop") /\ is_eof(cur),
     StructEnter |-> At("struct", "start"),
     StructLoop |-> At("struct", "loop"),
     StructInsert |-> At("struct", "insert") /\ Len(ret) = 1,
     FieldValueEnter |-> At("field", "start"),
     FieldValueFinish |-> At("field", "after") /\ Len(ret) = 1,
     ValueEnter |-> At("value", "start"),
     ValueWrap |-> At("value", "wrap") /\ Len(ret) = 1,
     ArrayEnter |-> At("array", "start"),
     ArrayLoop |-> At("array", "loop"),
     ArrayAfter |-> At("array", "after") /\ Len(ret) = 1,
     TupleEnter |-> At("tuple", "start"),
     TupleLoop |-> At("tuple", "loop"),
     TupleAfter |-> At("tuple", "after") /\ Len(ret) = 1]

Returned == Len(ret) = 1 /\ ret[1].t \notin {"RawStruct", "RawVec"}

\* The accessors other than as_pair: present exactly on their own case, and
\* then with the content of the value.
ShapeAccessors(v) ==
    /\ as_struct(v) = (IF v.t = "Struct" THEN <<v.items>> ELSE <<>>)
    /\ as_str(v) = (IF v.t = "Str" THEN <<v.s>> ELSE <<>>)
    /\ as_num(v) = (IF v.t = "Num" THEN <<v.s>> ELSE <<>>)
    /\ as_int(v) = (IF v.t = "Int" THEN <<[neg |-> v.b, digits |-> v.s]>> ELSE <<>>)
    /\ as_bool(v) = (IF v.t = "Bool" THEN <<v.b>> ELSE <<>>)
    /\ as_array(v) = (IF v.t = "Array" THEN <<v.items>> ELSE <<>>)
    /\ as_tuple(v) = (IF v.t = "Tuple" THEN <<v.items>> ELSE <<>>)
    /\ as_variant(v) = (IF v.t = "Variant" THEN <<v.s>> ELSE <<>>)
    /\ as_variant_with_payload(v) =
            (IF v.t = "Variant" THEN <<[name |-> v.s, payload |-> v.items]>> ELSE <<>>)
    /\ Cardinality({t \in {"Struct", "Str", "Num", "Int", "Bool", "Array", "Tuple", "Variant"} :
            v.t = t}) = 1

\* C16: on every value the parser returns, each accessor is present exactly
\* when the value has the requested shape, and as_pair is present exactly
\* when the value is a Tuple of two elements.
C16_Accessors ==
    Returned =>
        /\ ShapeAccessors(ret[1])
        /\ as_pair(ret[1]) # <<>> <=> (ret[1].t = "Tuple" /\ Len(ret[1].items) = 2)

\* The same with as_pair left out: holds.
C16_ShapeAccessors == Returned => ShapeAccessors(ret[1])

\* C17: the read position never decreases across a step of the parse.
C17_PositionMonotone == [][pos' >= pos]_vars

\* The 1-based column of position p: one more than the number of bytes
\* between the last newline before p (or the start of the input) and p.
RECURSIVE TrueColumn(_)
TrueColumn(p) == IF p = 0 \/ input[p] = "\n" THEN 1 ELSE 1 + TrueColumn(p - 1)

\* C18: in every reachable state line and column are those of the position.
C18_LineColumnDerived == line = TrueLine(pos) /\ column = TrueColumn(pos)

\* Every recorded diagnostic carries a line and column of some position of
\* the input (the cursor when the defect was detected).
C18_DiagnosticsAtSomePosition ==
    \A i \in 1..Len(errors) :
        \E p \in 0..len : errors[i].line = TrueLine(p) /\ errors[i].column = TrueColumn(p)

\* parse_tuple is about to run an iteration of its loop, or to take back an
\* element from parse_value.
InTuple ==
    /\ phase = "running" /\ stack # <<>> /\ Top.fn = "tuple"
    /\ \/ Top.pc = "loop"
       \/ Top.pc = "after" /\ Len(ret) = 1

\* The cursor at which the step looks for `)`: at the top of the loop after
\* whitespace and comments, after an element once more after whitespace and
\* comments.  An element without a leading value byte is the text up to
\* `)`, `#` or the end of the line.
ClosePoint ==
    IF Top.pc = "after" THEN skip_ws_and_comments(cur)
    ELSE LET c == skip_ws_and_comments(cur) IN
         IF \/ peek_byte(c) \in {")", None, "\"", "{", "[", "(", "-", ":"} \cup Digits
            \/ Trim(slice_to_str(c.pos, FreeText(c).pos)) = <<>>
         THEN c
         ELSE skip_ws_and_comments(FreeText(c))

\* parse_tuple returns in this step because the input ended before `)`.
TupleEndsAtEof ==
    /\ InTuple
    /\ Len(stack') = Len(stack) - 1
    /\ is_eof(ClosePoint)

\* What the claim promises of such a return.
EofReported ==
    /\ Len(ret') = 1 /\ ret'[1].t = "Tuple"
    /\ Len(ret'[1].items) >= Len(Top.items)
    /\ SubSeq(ret'[1].items, 1, Len(Top.items)) = Top.items
    /\ Top.pc = "after" => ret'[1].items = Append(Top.items, ret[1])
    /\ Len(errors') = Len(errors) + 1
    /\ errors'[Len(errors')].kind = "UnexpectedEndOfInput"

\* C19: whenever the input ends inside a tuple before its `)`, right after
\* `(` or after one or more elements, parse_tuple records
\* UnexpectedEndOfInput and returns a Tuple of the elements collected.
C19_TupleEof == [][TupleEndsAtEof => EofReported]_vars

\* The same for the end of input found at the top of the loop only (right
\* after `(`, or after an element that was followed by a byte): holds.
C19_TupleEofAtLoopTop ==
    [][(TupleEndsAtEof /\ Top.pc = "loop" /\ is_eof(skip_ws_and_comments(cur)))
            => EofReported]_vars

\* A tuple returned at the end of input after an element, with nothing
\* recorded.
C19_SilentEof ==
    /\ Len(ret) = 1 /\ ret[1].t = "Tuple" /\ ret[1].items # <<>>
    /\ is_eof(cur) /\ input[len] # ")"
    /\ errors = <<>>

\* parse or parse_struct is about to read a key and the key scan gives the
\* empty string: the cursor is on a delimiter, or on a quoted string without
\* content.
EmptyKey == LoopHead /\ parse_key(cur).s = <<>>

\* The position after the first newline at or after p, or the end of input.
PastNewline(p) == IF NewlineFrom(p) < len THEN NewlineFrom(p) + 1 ELSE len

\* What the claim promises of the iteration that reads an empty key, k being
\* the cursor after the key scan.
EmptyKeySkipped(k) ==
    LET f == stack'[Len(stack)] IN
    /\ NumErr(errors', "UnexpectedCharacter") = NumErr(errors, "UnexpectedCharacter") + 1
    /\ errors'[Len(errors')].kind = "UnexpectedCharacter"
    /\ k.pos < len /\ errors'[Len(errors')].arg = <<Byte(k.pos)>>
    /\ errors'[Len(errors')].line = k.line /\ errors'[Len(errors')].column = k.column
    /\ Len(stack') = Len(stack)
    /\ f.fn = Top.fn /\ f.pc = "loop" /\ f.map = Top.map
    /\ ret' = <<>>
    /\ pos' = skip_ws_and_comments(Cur(PastNewline(k.pos), 1, 1)).pos

\* C20: whenever the key scan in parse or parse_struct yields an empty key,
\* exactly one UnexpectedCharacter diagnostic is recorded carrying the byte
\* at the cursor, no entry is inserted, and the parser skips through the
\* next newline (or to end of input) before resuming the loop at the next
\* line.
C20_EmptyKey == [][EmptyKey => EmptyKeySkipped(parse_key(cur).c)]_vars

\* The same for an empty key that is followed by at least one byte: holds.
C20_EmptyKeyBeforeByte ==
    [][(EmptyKey /\ ~is_eof(parse_key(cur).c)) => EmptyKeySkipped(parse_key(cur).c)]_vars

\* An empty quoted key at the end of the input was dropped and nothing was
\* recorded.
C20_SilentEmptyKey ==
    /\ phase = "done"
    /\ len >= 2 /\ input[len] = "\"" /\ input[len - 1] = "\""
    /\ root = <<>> /\ errors = <<>>

\* C21: inside a block, when the value of a field is followed on its line
\* by the closing brace, parse_field_value returns the single value it
\* parsed and leaves the brace unread; the field is inserted with that
\* value, require_newline_or_eof records ExpectedNewlineAfterKeyValue at the
\* brace, and the brace then closes the block.
C21_BraceAfterValue ==
    [][/\ (PendingField /\ Len(stack) >= 2 /\ stack[Len(stack) - 1].fn = "struct"
              /\ peek_byte(skip_horizontal_ws(cur)) = "}") =>
            /\ ret' = ret
            /\ stack' = Below
            /\ errors' = errors
            /\ pos' = skip_horizontal_ws(cur).pos
       /\ (At("struct", "insert") /\ Len(ret) = 1
              /\ peek_byte(skip_horizontal_ws(cur)) = "}") =>
            /\ errors' = Append(errors, Err(skip_horizontal_ws(cur),
                                            "ExpectedNewlineAfterKeyValue", <<>>))
            /\ Len(stack') = Len(stack)
            /\ stack'[Len(stack)].pc = "loop"
            /\ stack'[Len(stack)].map = Insert(Top.map, Top.key, ret[1])
            /\ pos' = skip_horizontal_ws(cur).pos
            /\ ret' = <<>>
       /\ (At("struct", "loop") /\ peek_byte(cur) = "}") =>
            /\ stack' = Below
            /\ ret' = <<RawStruct(Top.map)>>
            /\ pos' = pos + 1
            /\ errors' = errors]_vars

\* "k: { a: 1 }" has been parsed: k is the Struct of a -> 1 and the one
\* diagnostic is the missing newline after the field a, at the brace.
C21_Witness ==
    /\ phase = "done"
    /\ input = Bytes("k: { a: 1 }")
    /\ root = <<Entry(<<"k">>, StructV(<<Entry(<<"a">>, IntV(FALSE, <<"1">>))>>))>>
    /\ Len(errors) = 1
    /\ errors[1].kind = "ExpectedNewlineAfterKeyValue"
    /\ errors[1].column = 11

\* The number of consecutive backslashes right before position q, inside the
\* string opened by the quote at p.
RECURSIVE BackslashesBefore(_, _)
BackslashesBefore(p, q) ==
    IF q - 1 > p /\ Byte(q - 1) = "\\" THEN 1 + BackslashesBefore(p, q - 1) ELSE 0

\* The quotes after p that are not escaped: preceded by an even number of
\* backslashes.
ClosingQuotes(p) ==
    {q \in (p + 1)..(len - 1) : Byte(q) = "\"" /\ BackslashesBefore(p, q) % 2 = 0}

\* The text between the quotes with its escapes resolved; a backslash that
\* ends the input stands for nothing.
RECURSIVE Decode(_)
Decode(txt) ==
    IF txt = <<>> THEN <<>>
    ELSE IF txt[1] # "\\" THEN <<txt[1]>> \o Decode(Tail(txt))
    ELSE IF Len(txt) = 1 THEN <<>>
    ELSE <<(CASE txt[2] = "n" -> "\n" [] txt[2] = "t" -> "\t" [] txt[2] = "r" -> "\r"
              [] OTHER -> txt[2])>> \o Decode(SubSeq(txt, 3, Len(txt)))

\* The step about to be taken reads a quoted string, as a key or as a value.
OpensString ==
    /\ LoopHead \/ At("value", "start")
    /\ peek_byte(skip_ws_and_comments(cur)) = "\""

\* C22: when the input ends before an unescaped closing quote, parse_string
\* records exactly one UnterminatedString, returns the content decoded so
\* far and leaves the cursor at the end of input; otherwise the string ends
\* at the first quote that is not escaped, whatever newlines and escaped
\* quotes come before it.
C22_UnterminatedString ==
    [][OpensString =>
        LET c == skip_ws_and_comments(cur)
            r == parse_string(c)
            ends == ClosingQuotes(c.pos)
        IN  IF ends = {}
            THEN /\ Len(r.errs) = 1 /\ r.errs[1].kind = "UnterminatedString"
                 /\ r.c.pos = len
                 /\ r.s = Decode(slice_to_str(c.pos + 1, len))
                 /\ NumErr(errors', "UnterminatedString")
                        = NumErr(errors, "UnterminatedString") + 1
                 /\ pos' = len
                 /\ At("value", "start") => ret' = <<StrV(r.s)>>
            ELSE LET q == CHOOSE x \in ends : \A y \in ends : x <= y IN
                 /\ r.errs = <<>>
                 /\ r.c.pos = q + 1
                 /\ r.s = Decode(slice_to_str(c.pos + 1, q))
                 /\ NumErr(errors', "UnterminatedString")
                        = NumErr(errors, "UnterminatedString")
                 /\ At("value", "start") => (ret' = <<StrV(r.s)>> /\ pos' = q + 1)]_vars

\* The value of k opened with a quote and ran to the end of input over an
\* escaped quote and a newline: k is the String a"<newline>b and the one
\* diagnostic is UnterminatedString.
C22_Witness ==
    /\ phase = "done"
    /\ root = <<Entry(<<"k">>, StrV(<<"a", "\"", "\n", "b">>))>>
    /\ Len(errors) = 1
    /\ errors[1].kind = "UnterminatedString"
    /\ pos = len

\* The end of the key that starts at a (quoted or not).
KeyEnd(a) ==
    IF Byte(a) = "\"" THEN parse_string(Cur(a, 1, 1)).c.pos ELSE TokenEnd(a)

\* The field of frame f has its key followed by spaces or tabs and then a
\* colon.
SpacedColon(f) ==
    LET ke == KeyEnd(f.keyPos) IN
    /\ ke < len /\ Byte(ke) \in {" ", "\t"}
    /\ HwsEnd(ke) < len /\ Byte(HwsEnd(ke)) = ":"

\* The Variant a colon at position p starts: its name is the run after it.
IsVariantAt(v, p) ==
    v.t = "Variant" /\ v.s = slice_to_str(p + 1, TokenEnd(p + 1))

\* The separator is the colon right after the key and nothing else: the
\* value of a field is read from the first byte after the key, that colon
\* if there is one, and the spaces and tabs that follow.
ColonOnlyRightAfterKey ==
    PendingInsert =>
        LET ke == KeyEnd(Top.keyPos) IN
        Top.start = HwsEnd(IF ke < len /\ Byte(ke) = ":" THEN ke + 1 ELSE ke)

\* C23 (as stated): a colon separated from the key by whitespace is not the
\* separator but the start of the value, which is the Variant named by the
\* run that follows the colon.
C23_SpacedColon ==
    /\ ColonOnlyRightAfterKey
    /\ (PendingInsert /\ SpacedColon(Top)) =>
            (Byte(Top.start) = ":" /\ IsVariantAt(ret[1], Top.start))

\* C23 (amended): such a colon is the start of the value and parse_value
\* reads it as a Variant named by the run that follows; the field's value is
\* that Variant when nothing but spaces, tabs, a comment, `}` or the end of
\* the line follows it, and otherwise the String of the line from the colon
\* on, trimmed.
C23_SpacedColonAmended ==
    /\ ColonOnlyRightAfterKey
    /\ (PendingField /\ Len(stack) >= 2 /\ SpacedColon(stack[Len(stack) - 1])) =>
            (Byte(Top.start) = ":" /\ IsVariantAt(ret[1], Top.start))
    /\ (PendingInsert /\ SpacedColon(Top)) =>
            /\ Byte(Top.start) = ":"
            /\ \/ IsVariantAt(ret[1], Top.start)
               \/ /\ ret[1] = StrV(Trim(slice_to_str(Top.start, pos)))
                  /\ ret[1].s[1] = ":"
                  /\ pos = LineEnd(pos)

\* "key : x" gave key the String ": x" and "key2 :name" gave key2 the
\* Variant name, without diagnostics.
C23_Witness ==
    /\ phase = "done"
    /\ root = <<Entry(Bytes("key"), StrV(Bytes(": x"))),
                Entry(Bytes("key2"), VariantV(Bytes("name"), <<>>))>>
    /\ errors = <<>>

\* The first position at or after p that is the end of input, a `)`, a `#`
\* or a newline.
FreeEnd(p) ==
    CHOOSE q \in p..len :
        /\ q = len \/ Byte(q) \in {")", "#", "\n"}
        /\ \A i \in p..(q - 1) : Byte(i) \notin {")", "#", "\n"}

\* The bytes that start a full value inside a tuple.
ValueStarts == {"\"", "{", "[", "(", "-", ":"} \cup Digits

\* parse_tuple is about to read an element that starts with none of them.
FreeElement ==
    /\ At("tuple", "loop")
    /\ peek_byte(skip_ws_and_comments(cur)) \notin ValueStarts \cup {")", None}

\* The element was added to the tuple as one Boolean or String: the tuple
\* goes on with it appended, or returns with it as its last element, and
\* the cursor is past the run.
AbsorbedAsOne ==
    LET a == skip_ws_and_comments(cur).pos
        el == Classify(Trim(slice_to_str(a, FreeEnd(a))))
    IN  /\ el.t \in {"Bool", "Str"}
        /\ el.t = "Bool" <=> Trim(slice_to_str(a, FreeEnd(a))) \in {Bytes("true"), Bytes("false")}
        /\ pos' >= FreeEnd(a)
        /\ \/ /\ Len(stack') = Len(stack)
              /\ stack'[Len(stack)].fn = "tuple"
              /\ stack'[Len(stack)].items = Append(Top.items, el)
              /\ ret' = <<>>
           \/ /\ stack' = Below
              /\ ret' = <<TupleV(Append(Top.items, el))>>

\* C24: inside a tuple an element whose first byte starts no full value
\* absorbs every byte up to the next `)`, `#` or newline as one element,
\* Boolean if the trimmed run is true or false and one String otherwise;
\* an element that starts with a quote, a digit, `-`, `:` or an opening
\* bracket is handed to parse_value where it stands.
C24_TupleFreeText ==
    [][/\ FreeElement => AbsorbedAsOne
       /\ (At("tuple", "loop") /\ peek_byte(skip_ws_and_comments(cur)) \in ValueStarts) =>
            /\ stack' = Call([Top EXCEPT !.pc = "after", !.head = pos],
                             Frame("value", "start"))
            /\ pos' = skip_ws_and_comments(cur).pos
            /\ ret' = <<>> /\ errors' = errors]_vars

\* The same for runs that do not trim to nothing: holds.
C24_TupleFreeTextNotBlank ==
    [][(FreeElement /\ Trim(slice_to_str(skip_ws_and_comments(cur).pos,
                                         FreeEnd(skip_ws_and_comments(cur).pos))) # <<>>)
            => AbsorbedAsOne]_vars

\* A form feed alone before a comment was dropped: the tuple holds the
\* value of the next line only.
C24_DroppedElement ==
    /\ phase = "done"
    /\ input = Bytes("t (\f#c\n1)\n")
    /\ root = <<Entry(<<"t">>, TupleV(<<IntV(FALSE, <<"1">>)>>))>>
    /\ errors = <<>>

\* parse_value is about to call parse_numeric on a slice (an optional `-`
\* and a run of digits) that is not followed by `.` and is no signed 64-bit
\* integer: no digit at all, or a value out of range.
BadIntegerAhead ==
    /\ At("value", "start")
    /\ LET a == skip_ws_and_comments(cur).pos
           neg == a < len /\ Byte(a) = "-"
           d0 == IF neg THEN a + 1 ELSE a
           e == DigitsEnd(d0)
       IN  /\ a < len /\ Byte(a) \in Digits \cup {"-"}
           /\ e = len \/ Byte(e) # "."
           /\ e = d0 \/ ~FitsI64(neg, StripZeros(slice_to_str(d0, e)))

\* The end of that slice.
BadIntegerEnd ==
    LET a == skip_ws_and_comments(cur).pos IN
    DigitsEnd(IF Byte(a) = "-" THEN a + 1 ELSE a)

\* C25: such a slice records exactly one InvalidIntegerFormat carrying the
\* slice, Integer 0 is returned with the cursor just after the slice, and
\* the parse goes on: a field on the following line is parsed and inserted.
C25_BadInteger ==
    /\ [][BadIntegerAhead =>
            /\ ret' = <<IntV(FALSE, <<"0">>)>>
            /\ stack' = Below
            /\ pos' = BadIntegerEnd
            /\ Len(errors') = Len(errors) + 1
            /\ SubSeq(errors', 1, Len(errors)) = errors
            /\ errors'[Len(errors')].kind = "InvalidIntegerFormat"
            /\ errors'[Len(errors')].arg =
                    slice_to_str(skip_ws_and_comments(cur).pos, BadIntegerEnd)
            /\ errors'[Len(errors')].line = TrueLine(BadIntegerEnd)
            /\ errors'[Len(errors')].column = TrueColumn(BadIntegerEnd)]_vars
    /\ []((phase = "done" /\ input \in BadIntDocs) =>
            /\ root = <<Entry(<<"k">>, IntV(FALSE, <<"0">>)),
                        Entry(<<"j">>, IntV(FALSE, <<"1">>))>>
            /\ Len(errors) = 1
            /\ errors[1].kind = "InvalidIntegerFormat"
            /\ errors[1].arg = SubSeq(input, 3, Len(input) - 5))

\* "k 9223372036854775808" and "j 1" on the next line have been parsed: k
\* is Integer 0, j is Integer 1 and one InvalidIntegerFormat was recorded.
C25_Witness ==
    /\ phase = "done"
    /\ input = Bytes("k 9223372036854775808\nj 1\n")
    /\ root = <<Entry(<<"k">>, IntV(FALSE, <<"0">>)), Entry(<<"j">>, IntV(FALSE, <<"1">>))>>
    /\ Len(errors) = 1
    /\ errors[1] = [line |-> 1, column |-> 22, kind |-> "InvalidIntegerFormat",
                    arg |-> Bytes("9223372036854775808")]

\* What the documents of LfDocs parse to with LF line terminators: the root
\* and the kinds of the diagnostics.
LfResults ==
    {[doc |-> "a: 10\nb: true\nc: \"s\"\n",
      root |-> <<Entry(<<"a">>, IntV(FALSE, <<"1", "0">>)),
                 Entry(<<"b">>, BoolV(TRUE)),
                 Entry(<<"c">>, StrV(<<"s">>))>>,
      kinds |-> <<>>],
     [doc |-> "k\nj 1\n",
      root |-> <<Entry(<<"j">>, IntV(FALSE, <<"1">>))>>,
      kinds |-> <<"ExpectedValueOnSameLine">>],
     [doc |-> "o {\n a 1\n}\n",
      root |-> <<Entry(<<"o">>, StructV(<<Entry(<<"a">>, IntV(FALSE, <<"1">>))>>))>>,
      kinds |-> <<>>]}

\* The finished parse has the root and the diagnostic kinds of r.
SameResult(r) ==
    /\ root = r.root
    /\ [i \in 1..Len(errors) |-> errors[i].kind] = r.kinds

\* The table is what the parser gives for the LF documents.
C26_LfResults ==
    phase = "done" => \A r \in LfResults : input = Bytes(r.doc) => SameResult(r)

\* C26: replacing every LF line terminator of a document by CR LF yields
\* the same value tree and the same diagnostic kinds.
C26_LineEndings ==
    phase = "done" =>
        \A r \in LfResults :
            (input = Bytes(r.doc) \/ input = Crlf(Bytes(r.doc))) => SameResult(r)

\* With CR LF the Integer, the Boolean and the quoted String have all become
\* rest-of-line Strings.
C26_CrlfStrings ==
    /\ phase = "done"
    /\ input = Crlf(Bytes("a: 10\nb: true\nc: \"s\"\n"))
    /\ root = <<Entry(<<"a">>, StrV(Bytes("10"))),
                Entry(<<"b">>, StrV(Bytes("true"))),
                Entry(<<"c">>, StrV(Bytes("\"s\"")))>>

\* The slices <<start, end>> the step about to be taken hands to
\* slice_to_str or get_unchecked(start..end): the unquoted key, the
\* identifier, variant name or numeric literal of a value, the rest-of-line
\* text of a field and the free text of a tuple element.
SlicesAhead ==
    LET c == skip_ws_and_comments(cur)
        b == peek_byte(c)
    IN  (IF LoopHead /\ b # "\""
         THEN {<<c.pos, ScanRun(c).pos>>} ELSE {})
        \cup
        (IF At("value", "start") /\ b = ":"
         THEN {<<c.pos + 1, parse_variant_name(next_byte(c)).c.pos>>} ELSE {})
        \cup
        (IF At("value", "start") /\ b \in Digits \cup {"-"}
         THEN {<<c.pos, parse_numeric(c).c.pos>>} ELSE {})
        \cup
        (IF At("value", "start") /\ b \notin Digits \cup {"-", ":", "(", "{", "[", "\"", None}
         THEN {<<c.pos, ScanRun(c).pos>>} ELSE {})
        \cup
        (IF PendingField /\ peek_byte(skip_horizontal_ws(cur)) \notin {"\n", "#", "}", None}
         THEN {<<Top.start, RestOfLine(skip_horizontal_ws(cur)).pos>>} ELSE {})
        \cup
        (IF FreeElement THEN {<<c.pos, FreeText(c).pos>>} ELSE {})

\* The cursors at which the step about to be taken reads a byte after its
\* `pos < len` test: where the skip rules stop and where each slice ends.
CursorsAhead ==
    {pos, skip_ws_and_comments(cur).pos, skip_horizontal_ws(cur).pos}
        \cup {s[2] : s \in SlicesAhead}

\* C27: in every reachable state 0 <= pos <= len; every cursor at which a
\* byte is read lies in 0..len, the read taking place only when it is below
\* len; and every slice taken satisfies 0 <= start <= end <= len.
C27_BoundsSafety ==
    /\ pos \in 0..len
    /\ phase = "running" =>
        /\ \A p \in CursorsAhead : p \in 0..len
        /\ \A s \in SlicesAhead : 0 <= s[1] /\ s[1] <= s[2] /\ s[2] <= len

\* A field is about to take its rest-of-line slice, from the start of the
\* value to the end of the input.
C27_Witness ==
    /\ PendingField
    /\ \E s \in SlicesAhead : s[1] = Top.start /\ s[1] < s[2] /\ s[2] = len
    /\ pos < len

====
